---- MODULE Spec2Model ----
(***************************************************************************)
(* Model of soap::base::ObjectFactory<key_t, T> and ObjectFactoryRegister  *)
(* (src/src/soap/base/objectfactory.hpp).                                  *)
(*                                                                         *)
(* Two instantiations of the class template are modelled, both with        *)
(* key_t = int: ObjectFactory<int, Reader> and ObjectFactory<int, Writer>. *)
(* Each has its own function-local static _this (Instance) holding its own *)
(* std::map _objects.  Strings are sequences of one-character strings.     *)
(***************************************************************************)
EXTENDS Integers, Sequences, FiniteSets, TLC

\* ---------------------------------------------------------------- bounds
\* Number of objects the free store can hold (caps the calls of new T()).
MaxHeap == 2

\* Number of REGISTER_OBJECT tokens a program declares.
MaxTokens == 3

\* Number of threads that call Create and IsRegistered.
MaxReaders == 2

\* ------------------------------------------------------- the type universe
\* The instantiations ObjectFactory<int, T>, named after T (abstract_type).
Registries == {"Reader", "Writer"}

\* Values of key_t = int used as arguments.
Keys == {0 - 12, 0, 7}

\* Classes derived from each abstract_type (the obj_t / object_type arguments).
ConcreteTypes(abstract) ==
    IF abstract = "Reader" THEN {"JsonReader", "XmlReader"} ELSE {"TextWriter"}

\* The null pointer of type T*.
NULL == 0

\* create_policy_new<parent, T>: the function, as a value of type creator_t.
create_policy_new(parent, T) == [parent |-> parent, T |-> T]

\* creator_t of ObjectFactory<int, abstract>: the creators that type-check.
creator_t(abstract) ==
    {create_policy_new(abstract, c) : c \in ConcreteTypes(abstract)}

\* Placeholder in call records of operations that take no creator.
NoCreator == [parent |-> "", T |-> ""]

\* A default-constructed std::map (assoc_map): no entries.
EmptyMap == [k \in {} |-> NoCreator]

VARIABLES
    constructed,  \* constructed[r]: the static _this of Instance() is initialized
    _objects,     \* _objects[r]: the assoc_map of registry r, key -> creator
    heap,         \* the free store: heap[a] is the dynamic type of the object at a
    last,         \* the last call: operation, arguments and outcome
    first,        \* history: first[r][k] is the creator of the first Register call for k
    returned,     \* history: the addresses Create has returned so far
    tokens,       \* the REGISTER_OBJECT tokens the linked modules declare
    ran,          \* the tokens constructed so far, in the order they ran
    rd,           \* rd[t]: the call reader thread t is in, and how far it is
    inflight      \* the Register calls that are inside insert, at most one

\* The variables of static initialization and of the threads.
startupVars == <<tokens, ran>>
threadVars == <<rd, inflight>>

vars == <<constructed, _objects, heap, last, first, returned,
          tokens, ran, rd, inflight>>

\* ------------------------------------------------------------- strings
\* The characters of the decimal digits, in order.
DigitChars == <<"0", "1", "2", "3", "4", "5", "6", "7", "8", "9">>

\* Decimal representation of a natural number, most significant digit first.
RECURSIVE NatToStr(_)
NatToStr(n) ==
    IF n < 10 THEN <<DigitChars[n + 1]>>
    ELSE NatToStr(n \div 10) \o <<DigitChars[(n % 10) + 1]>>

\* boost::lexical_cast<std::string>(key) for key_t = int.
lexical_cast(key) ==
    IF key < 0 THEN <<"-">> \o NatToStr(0 - key) ELSE NatToStr(key)

\* The literal "factory key ".
MsgPrefix == <<"f", "a", "c", "t", "o", "r", "y", " ", "k", "e", "y", " ">>

\* The literal " not found.".
MsgSuffix == <<" ", "n", "o", "t", " ", "f", "o", "u", "n", "d", ".">>

\* what() of the std::runtime_error thrown by Create.
KeyNotFoundMessage(key) == MsgPrefix \o lexical_cast(key) \o MsgSuffix

\* ------------------------------------------------------------ std::map
\* Variant of MapInsert with the semantics of _objects[key] = creator: an
\* existing entry is overwritten (last registration wins).
MapInsertOrAssign(m, key, creator) ==
    [map |-> [k \in DOMAIN m \cup {key} |-> IF k = key THEN creator ELSE m[k]],
     second |-> key \notin DOMAIN m]

\* assoc_map::insert(value_type(key, creator)): the map afterwards and
\* pair::second, which is false when the key was already present.
MapInsert(m, key, creator) ==
    IF key \in DOMAIN m
    THEN [map |-> m, second |-> FALSE]
    ELSE [map |-> [k \in DOMAIN m \cup {key} |->
                      IF k = key THEN creator ELSE m[k]],
          second |-> TRUE]

\* assoc_map::end(): the iterator that designates no entry.
End == {}

\* Variant of MapFind whose result is compared against the last entry
\* instead of end(): the greatest key of the map is reported as not found.
MapFindBeforeLast(m, key) ==
    IF key \in DOMAIN m /\ \E k \in DOMAIN m : k > key THEN {key} ELSE End

\* assoc_map::find(key): an iterator, here the set of the entry's key.
MapFind(m, key) == IF key \in DOMAIN m THEN {key} ELSE End

\* ------------------------------------------------------- call outcomes
\* The program state an operation works on.
State(cons, objs, hp) == [constructed |-> cons, objects |-> objs, heap |-> hp]

\* A call that returns: the state afterwards and what it returned.
\* ret: a T*;  retb: a bool;  view: a const assoc_map&;  ref: an ObjectFactory&;
\* calls: the calls of Register(key, creator) it made, in order.
Return(st, ret, retb, view, ref, calls) ==
    [st |-> st, ret |-> ret, retb |-> retb, view |-> view, ref |-> ref,
     calls |-> calls, threw |-> FALSE, what |-> <<>>]

\* A call that leaves by an exception with message what.
Throw(st, what) ==
    [st |-> st, ret |-> NULL, retb |-> FALSE, view |-> EmptyMap, ref |-> "",
     calls |-> <<>>, threw |-> TRUE, what |-> what]

\* One call of Register(key, creator), as an entry of calls.
RegisterCall(key, creator) == [key |-> key, creator |-> creator]

\* ----------------------------------------------------- ObjectFactory
\* typedef T abstract_type, for the instantiation named r.
abstract_type(r) == r

\* Variant of Instance whose _this is not static: every call constructs
\* the registry anew.
InstanceNonStatic(st, r) ==
    Return([st EXCEPT !.constructed[r] = TRUE, !.objects[r] = EmptyMap],
           NULL, FALSE, EmptyMap, r, <<>>)

\* static ObjectFactory& Instance(): the function-local static _this is
\* constructed (with an empty _objects) by the first call only.
Instance(st, r) ==
    IF st.constructed[r]
    THEN Return(st, NULL, FALSE, EmptyMap, r, <<>>)
    ELSE Return([st EXCEPT !.constructed[r] = TRUE, !.objects[r] = EmptyMap],
                NULL, FALSE, EmptyMap, r, <<>>)

\* const assoc_map &getObjects()
getObjects(st, r) == Return(st, NULL, FALSE, st.objects[r], "", <<>>)

\* Variant of Invoke that keeps one object per concrete type and hands it
\* out again instead of allocating.
InvokeCached(creator, hp) ==
    IF \E a \in DOMAIN hp : hp[a] = creator.T
    THEN [heap |-> hp, ptr |-> CHOOSE a \in DOMAIN hp : hp[a] = creator.T]
    ELSE [heap |-> Append(hp, creator.T), ptr |-> Len(hp) + 1]

\* The body of create_policy_new<parent, T>, run through a creator_t:
\* new T() on free store hp; the new object gets the next address.
Invoke(creator, hp) == [heap |-> Append(hp, creator.T), ptr |-> Len(hp) + 1]

\* Variant of Register with a fail-on-duplicate policy: it throws when
\* insert reports that the key was present.
RegisterFailOnDuplicate(st, r, key, creator) ==
    IF MapInsert(st.objects[r], key, creator).second
    THEN Return([st EXCEPT !.objects[r] = MapInsert(@, key, creator).map],
                NULL, FALSE, EmptyMap, "", <<RegisterCall(key, creator)>>)
    ELSE Throw(st, <<"d", "u", "p", "l", "i", "c", "a", "t", "e">>)

\* Variant of Register whose map is one object shared by all instantiations
\* of the template: the entry appears in every registry.
RegisterShared(st, r, key, creator) ==
    Return([st EXCEPT !.objects =
               [q \in Registries |-> MapInsert(st.objects[q], key, creator).map]],
           NULL, FALSE, EmptyMap, "", <<RegisterCall(key, creator)>>)

\* void Register(const key_t &key, creator_t creator)
Register(st, r, key, creator) ==
    Return([st EXCEPT !.objects[r] = MapInsert(@, key, creator).map],
           NULL, FALSE, EmptyMap, "", <<RegisterCall(key, creator)>>)

\* Variant of Register<obj_t> that does not delegate to Register.
RegisterTNoInsert(st, r, obj_t, key) ==
    Return(st, NULL, FALSE, EmptyMap, "", <<>>)

\* template<typename obj_t> void Register(const key_t &key)
RegisterT(st, r, obj_t, key) ==
    Register(st, r, key, create_policy_new(abstract_type(r), obj_t))

\* Variant of Create that returns the null pointer for a key it does not
\* find instead of throwing.
CreateNullOnMiss(st, r, key) ==
    LET it == MapFind(st.objects[r], key) IN
    IF it # End
    THEN LET n == Invoke(st.objects[r][key], st.heap) IN
         Return([st EXCEPT !.heap = n.heap], n.ptr, FALSE, EmptyMap, "", <<>>)
    ELSE Return(st, NULL, FALSE, EmptyMap, "", <<>>)

\* Variant of Create that looks the key up with _objects[key], which
\* inserts a null creator for a key that is absent, and throws on null.
CreateSubscript(st, r, key) ==
    IF key \in DOMAIN st.objects[r]
    THEN LET n == Invoke(st.objects[r][key], st.heap) IN
         Return([st EXCEPT !.heap = n.heap], n.ptr, FALSE, EmptyMap, "", <<>>)
    ELSE Throw([st EXCEPT !.objects[r] =
                   [k \in DOMAIN st.objects[r] \cup {key} |->
                       IF k = key THEN NoCreator ELSE st.objects[r][k]]],
               KeyNotFoundMessage(key))

\* T *Create(const key_t &key)
Create(st, r, key) ==
    LET it == MapFind(st.objects[r], key) IN
    IF it # End
    THEN LET n == Invoke(st.objects[r][key], st.heap) IN
         Return([st EXCEPT !.heap = n.heap], n.ptr, FALSE, EmptyMap, "", <<>>)
    ELSE Throw(st, KeyNotFoundMessage(key))

\* Variant of IsRegistered that probes with lower_bound instead of find:
\* true as soon as the map holds a key that is not less than _id.
IsRegisteredLowerBound(st, r, _id) ==
    Return(st, NULL, \E k \in DOMAIN st.objects[r] : k >= _id,
           EmptyMap, "", <<>>)

\* bool IsRegistered(const key_t &_id) const
IsRegistered(st, r, _id) ==
    Return(st, NULL, MapFind(st.objects[r], _id) # End, EmptyMap, "", <<>>)

\* Variant of the token constructor that takes the factory by value: the
\* Register call is made on a copy and the registry itself is not changed.
ObjectFactoryRegisterByValue(st, object_type, factory, key) ==
    Return(st, NULL, FALSE, EmptyMap, "",
           <<RegisterCall(key,
                          create_policy_new(abstract_type(factory), object_type))>>)

\* ObjectFactoryRegister<object_type>::ObjectFactoryRegister(factory, key)
ObjectFactoryRegister(st, object_type, factory, key) ==
    Register(st, factory, key,
             create_policy_new(abstract_type(factory), object_type))

\* ------------------------------------------------------------ the program
\* The reader threads.
Readers == 1..MaxReaders

\* A reader thread that is in no call.
Idle == [pc |-> "idle", reg |-> "", key |-> 0, found |-> FALSE,
         it |-> NoCreator, raced |-> FALSE]

\* No tokens are declared and no thread runs.
NoStartupNoThreads ==
    /\ tokens = {}
    /\ ran = <<>>
    /\ rd = [t \in Readers |-> Idle]
    /\ inflight = <<>>

\* Before main and before any dynamic initialization: no static _this is
\* constructed, the free store is empty, nothing has been called.
Init ==
    /\ constructed = [r \in Registries |-> FALSE]
    /\ _objects = [r \in Registries |-> EmptyMap]
    /\ heap = <<>>
    /\ last = [op |-> "none", reg |-> "", key |-> 0, creator |-> NoCreator,
               ret |-> NULL, retb |-> FALSE, view |-> EmptyMap, ref |-> "",
               calls |-> <<>>, threw |-> FALSE, what |-> <<>>]
    /\ first = [r \in Registries |-> EmptyMap]
    /\ returned = {}
    /\ NoStartupNoThreads

\* The state the operations are applied to.
Now == State(constructed, _objects, heap)

\* The program takes the state of outcome out; the call is recorded in last.
Do(op, r, key, creator, out) ==
    /\ constructed' = out.st.constructed
    /\ _objects' = out.st.objects
    /\ heap' = out.st.heap
    /\ last' = [op |-> op, reg |-> r, key |-> key, creator |-> creator,
                ret |-> out.ret, retb |-> out.retb, view |-> out.view,
                ref |-> out.ref, calls |-> out.calls, threw |-> out.threw,
                what |-> out.what]

\* History: the caller asked for key to be registered with creator in r.
NoteRegistration(r, key, creator) ==
    first' = IF key \in DOMAIN first[r] THEN first
             ELSE [first EXCEPT ![r] =
                      [k \in DOMAIN first[r] \cup {key} |->
                          IF k = key THEN creator ELSE first[r][k]]]

\* A caller evaluates ObjectFactory<int, r>::Instance().
CallInstance(r) ==
    /\ Do("Instance", r, 0, NoCreator, Instance(Now, r))
    /\ UNCHANGED <<first, returned, startupVars, threadVars>>

\* A caller holding the reference from Instance() calls Register(key, creator).
CallRegister(r, key, creator) ==
    /\ constructed[r]
    /\ Do("Register", r, key, creator, Register(Now, r, key, creator))
    /\ NoteRegistration(r, key, creator)
    /\ UNCHANGED <<returned, startupVars, threadVars>>

\* A caller holding the reference calls Register<obj_t>(key).
CallRegisterT(r, obj_t, key) ==
    /\ constructed[r]
    /\ Do("RegisterT", r, key, create_policy_new(r, obj_t),
          RegisterT(Now, r, obj_t, key))
    /\ NoteRegistration(r, key, create_policy_new(r, obj_t))
    /\ UNCHANGED <<returned, startupVars, threadVars>>

\* An ObjectFactoryRegister<object_type> is constructed with (factory, key).
ConstructToken(object_type, factory, key) ==
    /\ constructed[factory]
    /\ Do("Token", factory, key, create_policy_new(factory, object_type),
          ObjectFactoryRegister(Now, object_type, factory, key))
    /\ NoteRegistration(factory, key, create_policy_new(factory, object_type))
    /\ UNCHANGED <<returned, startupVars, threadVars>>

\* A caller holding the reference calls Create(key); the free store has
\* room for the object when the key is found.
CallCreate(r, key) ==
    /\ constructed[r]
    /\ key \in DOMAIN _objects[r] => Len(heap) < MaxHeap
    /\ LET out == Create(Now, r, key) IN
       /\ Do("Create", r, key, NoCreator, out)
       /\ returned' = IF out.threw THEN returned ELSE returned \cup {out.ret}
    /\ UNCHANGED <<first, startupVars, threadVars>>

\* A caller holding the reference calls IsRegistered(key).
CallIsRegistered(r, key) ==
    /\ constructed[r]
    /\ Do("IsRegistered", r, key, NoCreator, IsRegistered(Now, r, key))
    /\ UNCHANGED <<first, returned, startupVars, threadVars>>

\* A caller holding the reference calls getObjects().
CallGetObjects(r) ==
    /\ constructed[r]
    /\ Do("getObjects", r, 0, NoCreator, getObjects(Now, r))
    /\ UNCHANGED <<first, returned, startupVars, threadVars>>

Next ==
    \/ \E r \in Registries : CallInstance(r)
    \/ \E r \in Registries : \E key \in Keys, creator \in creator_t(r) :
          CallRegister(r, key, creator)
    \/ \E r \in Registries : \E key \in Keys, obj_t \in ConcreteTypes(r) :
          CallRegisterT(r, obj_t, key)
    \/ \E r \in Registries : \E key \in Keys, object_type \in ConcreteTypes(r) :
          ConstructToken(object_type, r, key)
    \/ \E r \in Registries, key \in Keys : CallCreate(r, key)
    \/ \E r \in Registries, key \in Keys : CallIsRegistered(r, key)
    \/ \E r \in Registries : CallGetObjects(r)

Spec == Init /\ [][Next]_vars

\* The values the variables range over.
TypeOK ==
    /\ constructed \in [Registries -> BOOLEAN]
    /\ \A r \in Registries :
          /\ DOMAIN _objects[r] \subseteq Keys
          /\ \A k \in DOMAIN _objects[r] : _objects[r][k] \in creator_t(r)
    /\ Len(heap) <= MaxHeap
    /\ returned \subseteq 1..Len(heap)

\* ------------------------------------------------- static initialization
\* REGISTER_OBJECT(factory, object, key) declares a file-scope
\* ObjectFactoryRegister<object> _register_object(factory, key); here factory
\* is ObjectFactory<int, T>::Instance().  All tokens a module could declare.
TokenUniverse ==
    UNION {{[object |-> c, factory |-> r, key |-> k] :
               c \in ConcreteTypes(r), k \in Keys} : r \in Registries}

\* The program links some modules, which declare at most MaxTokens tokens;
\* none has been constructed yet.
StartupInit ==
    /\ constructed = [r \in Registries |-> FALSE]
    /\ _objects = [r \in Registries |-> EmptyMap]
    /\ heap = <<>>
    /\ last = [op |-> "none", reg |-> "", key |-> 0, creator |-> NoCreator,
               ret |-> NULL, retb |-> FALSE, view |-> EmptyMap, ref |-> "",
               calls |-> <<>>, threw |-> FALSE, what |-> <<>>]
    /\ first = [r \in Registries |-> EmptyMap]
    /\ returned = {}
    /\ tokens \in {T \in SUBSET TokenUniverse : Cardinality(T) <= MaxTokens}
    /\ ran = <<>>
    /\ rd = [t \in Readers |-> Idle]
    /\ inflight = <<>>

\* The tokens that have been constructed.
Ran == {ran[i] : i \in 1..Len(ran)}

\* The dynamic initialization of token t: its initializer evaluates
\* Instance() for the factory argument and then runs the token constructor.
\* The order among the tokens of different modules is not fixed.
StaticInitToken(t) ==
    /\ t \in tokens \ Ran
    /\ LET inst == Instance(Now, t.factory)
           out == ObjectFactoryRegister(inst.st, t.object, t.factory, t.key)
       IN  Do("Token", t.factory, t.key,
              create_policy_new(t.factory, t.object), out)
    /\ NoteRegistration(t.factory, t.key, create_policy_new(t.factory, t.object))
    /\ ran' = Append(ran, t)
    /\ UNCHANGED <<returned, tokens, threadVars>>

\* Tokens are constructed in any order; other code (initializers of other
\* globals, later main) uses the registries at any point in between.
StartupNext ==
    \/ \E t \in tokens : StaticInitToken(t)
    \/ \E r \in Registries : CallInstance(r)
    \/ \E r \in Registries, key \in Keys : CallCreate(r, key)
    \/ \E r \in Registries, key \in Keys : CallIsRegistered(r, key)
    \/ \E r \in Registries : CallGetObjects(r)

StartupSpec == StartupInit /\ [][StartupNext]_vars

\* ---------------------------------------------------------------- threads
\* The registry the threads share; registries are separate objects.
ThreadRegistries == {"Writer"}

\* Variant of CreateLookup that looks the key up with _objects[key], which
\* inserts a null creator for a key that is absent.
CreateLookupSubscript(st, m, r, key) ==
    IF key \in DOMAIN m
    THEN [st |-> st, found |-> TRUE, it |-> m[key]]
    ELSE [st |-> [st EXCEPT !.objects[r] =
                     [k \in DOMAIN st.objects[r] \cup {key} |->
                         IF k = key THEN NoCreator ELSE st.objects[r][k]]],
          found |-> FALSE, it |-> NoCreator]

\* The first statement of Create: const_iterator it(_objects.find(key)),
\* where the thread observes the map as m.  The iterator is kept as the
\* creator of the entry it designates.
CreateLookup(st, m, r, key) ==
    IF MapFind(m, key) # End
    THEN [st |-> st, found |-> TRUE, it |-> m[key]]
    ELSE [st |-> st, found |-> FALSE, it |-> NoCreator]

\* The rest of Create: call the creator of the entry, or throw.
CreateFinish(st, found, it, key) ==
    IF found
    THEN LET n == Invoke(it, st.heap) IN
         Return([st EXCEPT !.heap = n.heap], n.ptr, FALSE, EmptyMap, "", <<>>)
    ELSE Throw(st, KeyNotFoundMessage(key))

\* Register takes no lock.  While a Register call is inside insert on
\* registry r, a read of that map is a data race: the reader may see the map
\* as it was, as it will be, or fail.  Otherwise it sees the map.
Racing(r) == inflight # <<>> /\ inflight[1].reg = r

Observable(r) ==
    IF Racing(r)
    THEN {_objects[r],
          MapInsert(_objects[r], inflight[1].key, inflight[1].creator).map}
    ELSE {_objects[r]}

\* The process has been terminated by a failed racing read.
Crashed == last.op = "crash"

\* The threads start after Instance() has been called for the registry.
ThreadInit ==
    /\ constructed = [r \in Registries |-> r \in ThreadRegistries]
    /\ _objects = [r \in Registries |-> EmptyMap]
    /\ heap = <<>>
    /\ last = [op |-> "none", reg |-> "", key |-> 0, creator |-> NoCreator,
               ret |-> NULL, retb |-> FALSE, view |-> EmptyMap, ref |-> "",
               calls |-> <<>>, threw |-> FALSE, what |-> <<>>]
    /\ first = [r \in Registries |-> EmptyMap]
    /\ returned = {}
    /\ NoStartupNoThreads

\* A thread enters Register(key, creator) and starts the insert.  Every
\* reader that is inside a call on that registry now overlaps a Register.
RegisterBegin(r, key, creator) ==
    /\ ~Crashed
    /\ inflight = <<>>
    /\ inflight' = <<[reg |-> r, key |-> key, creator |-> creator]>>
    /\ rd' = [t \in Readers |->
                 IF rd[t].pc = "finish" /\ rd[t].reg = r
                 THEN [rd[t] EXCEPT !.raced = TRUE] ELSE rd[t]]
    /\ UNCHANGED <<constructed, _objects, heap, last, first, returned,
                   startupVars>>

\* The insert completes and Register returns.
RegisterEnd ==
    /\ ~Crashed
    /\ inflight # <<>>
    /\ LET w == inflight[1] IN
       /\ Do("Register", w.reg, w.key, w.creator,
             Register(Now, w.reg, w.key, w.creator))
       /\ NoteRegistration(w.reg, w.key, w.creator)
    /\ inflight' = <<>>
    /\ UNCHANGED <<returned, rd, startupVars>>

\* Reader t calls Create(key) and runs its first statement, the find.
ReaderCreateLookup(t, r, key) ==
    /\ ~Crashed
    /\ rd[t].pc = "idle"
    /\ \E m \in Observable(r) :
          LET look == CreateLookup(Now, m, r, key) IN
          /\ rd' = [rd EXCEPT ![t] = [pc |-> "finish", reg |-> r, key |-> key,
                                      found |-> look.found, it |-> look.it,
                                      raced |-> Racing(r)]]
          /\ constructed' = look.st.constructed
          /\ _objects' = look.st.objects
          /\ heap' = look.st.heap
    /\ UNCHANGED <<last, first, returned, inflight, startupVars>>

\* Reader t runs the rest of Create and returns or throws; the free store
\* has room for the object when the key was found.
ReaderCreateFinish(t) ==
    /\ ~Crashed
    /\ rd[t].pc = "finish"
    /\ rd[t].found => Len(heap) < MaxHeap
    /\ LET out == CreateFinish(Now, rd[t].found, rd[t].it, rd[t].key) IN
       /\ Do("Create", rd[t].reg, rd[t].key, NoCreator, out)
       /\ returned' = IF out.threw THEN returned ELSE returned \cup {out.ret}
    /\ rd' = [rd EXCEPT ![t] = Idle]
    /\ UNCHANGED <<first, inflight, startupVars>>

\* Reader t calls IsRegistered(key), a single find.
ReaderIsRegistered(t, r, key) ==
    /\ ~Crashed
    /\ rd[t].pc = "idle"
    /\ \E m \in Observable(r) :
          Do("IsRegistered", r, key, NoCreator,
             [IsRegistered([Now EXCEPT !.objects[r] = m], r, key)
                 EXCEPT !.st = Now])
    /\ UNCHANGED <<first, returned, rd, inflight, startupVars>>

\* A find that races with the insert fails: the process is terminated.
ReaderCrash(t, r) ==
    /\ ~Crashed
    /\ rd[t].pc = "idle"
    /\ Racing(r)
    /\ last' = [last EXCEPT !.op = "crash", !.reg = r]
    /\ UNCHANGED <<constructed, _objects, heap, first, returned, rd, inflight,
                   startupVars>>

ThreadNext ==
    \/ \E r \in ThreadRegistries : \E key \in Keys, creator \in creator_t(r) :
          RegisterBegin(r, key, creator)
    \/ RegisterEnd
    \/ \E t \in Readers, r \in ThreadRegistries, key \in Keys :
          ReaderCreateLookup(t, r, key)
    \/ \E t \in Readers : ReaderCreateFinish(t)
    \/ \E t \in Readers, r \in ThreadRegistries, key \in Keys :
          ReaderIsRegistered(t, r, key)
    \/ \E t \in Readers, r \in ThreadRegistries : ReaderCrash(t, r)

ThreadSpec == ThreadInit /\ [][ThreadNext]_vars

\* ------------------------------------------------------------ properties
\* The operations that register: Register, Register<obj_t>, and the token.
RegisterOps == {"Register", "RegisterT", "Token"}

\* The state before and after a step, as the operations see it.
Before == State(constructed, _objects, heap)
After == State(constructed', _objects', heap')

\* Reading a decimal numeral back, independently of lexical_cast.
IsDigit(c) == c \in {"0", "1", "2", "3", "4", "5", "6", "7", "8", "9"}

DigitValue(c) ==
    CASE c = "0" -> 0 [] c = "1" -> 1 [] c = "2" -> 2 [] c = "3" -> 3
      [] c = "4" -> 4 [] c = "5" -> 5 [] c = "6" -> 6 [] c = "7" -> 7
      [] c = "8" -> 8 [] OTHER -> 9

RECURSIVE ParseNat(_)
ParseNat(s) ==
    IF Len(s) = 0 THEN 0
    ELSE 10 * ParseNat(SubSeq(s, 1, Len(s) - 1)) + DigitValue(s[Len(s)])

IsNumeral(s) ==
    /\ Len(s) > 0
    /\ \A i \in 1..Len(s) : IsDigit(s[i]) \/ (i = 1 /\ s[i] = "-" /\ Len(s) > 1)

ParseInt(s) == IF s[1] = "-" THEN 0 - ParseNat(Tail(s)) ELSE ParseNat(s)

\* The message reads: factory key <numeral of key> not found.
CarriesKey(what, key) ==
    /\ Len(what) > Len(MsgPrefix) + Len(MsgSuffix)
    /\ SubSeq(what, 1, 12) =
          <<"f", "a", "c", "t", "o", "r", "y", " ", "k", "e", "y", " ">>
    /\ SubSeq(what, Len(what) - 10, Len(what)) =
          <<" ", "n", "o", "t", " ", "f", "o", "u", "n", "d", ".">>
    /\ LET numeral == SubSeq(what, 13, Len(what) - 11) IN
          IsNumeral(numeral) /\ ParseInt(numeral) = key

\* C1: Register is insert-if-absent.  After every step, each key that was
\* ever passed to a registering call is bound to the creator of the first
\* such call; a registering call for a key registered before leaves the
\* whole mapping of every registry unchanged; and Create on such a key
\* produces an object of the first-registered concrete type.
C1_FirstRegistrationWins ==
    [][ /\ \A r \in Registries : \A k \in DOMAIN first'[r] :
              /\ k \in DOMAIN _objects'[r]
              /\ _objects'[r][k] = first'[r][k]
        /\ (last'.op \in RegisterOps /\ last'.key \in DOMAIN first[last'.reg])
              => _objects' = _objects
        /\ (last'.op = "Create" /\ last'.key \in DOMAIN first[last'.reg])
              => /\ last'.ret \in DOMAIN heap'
                 /\ heap'[last'.ret] = first[last'.reg][last'.key].T
      ]_vars

\* C1 witness: a Register call has just passed a creator other than the one
\* recorded by the first registration of its key.
C1_Witness ==
    /\ last.op = "Register"
    /\ last.key \in DOMAIN first[last.reg]
    /\ first[last.reg][last.key] # last.creator

\* C2: Create on a registered key runs the bound creator and returns a newly
\* allocated object of that creator's concrete type: the address was not in
\* use before the call and was never returned by an earlier Create.
C2_CreateReturnsFreshInstance ==
    [][ (last'.op = "Create" /\ last'.key \in DOMAIN _objects[last'.reg])
           => /\ ~last'.threw
              /\ last'.ret # NULL
              /\ last'.ret \notin DOMAIN heap
              /\ last'.ret \notin returned
              /\ last'.ret \in DOMAIN heap'
              /\ heap'[last'.ret] = _objects[last'.reg][last'.key].T
              /\ \A a \in DOMAIN heap : heap'[a] = heap[a]
      ]_vars

\* C2 witness: Create has succeeded at least twice and two of the objects it
\* returned have the same concrete type.
C2_Witness ==
    /\ last.op = "Create"
    /\ ~last.threw
    /\ \E a, b \in returned : a # b /\ heap[a] = heap[b]

\* C3: for a key that was never registered in a registry, IsRegistered
\* returns false, and Create throws the error whose message carries the
\* decimal form of the key, allocating nothing and returning nothing.
C3_UnregisteredKey ==
    [][ /\ (last'.op = "IsRegistered" /\ last'.key \notin DOMAIN first[last'.reg])
              => ~last'.threw /\ last'.retb = FALSE
        /\ (last'.op = "Create" /\ last'.key \notin DOMAIN first[last'.reg])
              => /\ last'.threw
                 /\ CarriesKey(last'.what, last'.key)
                 /\ last'.ret = NULL
                 /\ heap' = heap
                 /\ returned' = returned
      ]_vars

\* C3 witness: Create has just failed for the negative key, in a registry
\* that holds other keys.
C3_Witness ==
    /\ last.op = "Create"
    /\ last.threw
    /\ last.key < 0
    /\ DOMAIN _objects[last.reg] # {}

\* C4: key-not-found is the only failure.  A call ends in an error only if
\* it is a Create for a key that was never registered, and the error is then
\* the key-not-found error; Create on a registered key returns an object.
C4_OnlyFailureIsKeyNotFound ==
    [][ /\ last'.threw
              => /\ last'.op = "Create"
                 /\ last'.key \notin DOMAIN first[last'.reg]
                 /\ CarriesKey(last'.what, last'.key)
        /\ (last'.op = "Create" /\ last'.key \in DOMAIN first[last'.reg])
              => ~last'.threw /\ last'.ret \in DOMAIN heap'
      ]_vars

\* C4 witness: Create has just failed in a registry from which an object
\* was created before.
C4_Witness ==
    /\ last.op = "Create"
    /\ last.threw
    /\ \E a \in returned : \E k \in DOMAIN _objects[last.reg] :
          heap[a] = _objects[last.reg][k].T

\* C5: Register (both overloads), IsRegistered and Instance are total.  None
\* of them ever ends in an error, and each can be called with every key and
\* every creator: Instance at any time, the others on any registry obtained
\* from Instance, whether or not the key is already registered.
C5_TotalOperations ==
    /\ last.op \in {"Register", "RegisterT", "IsRegistered", "Instance"}
          => ~last.threw
    /\ \A r \in Registries :
          /\ ENABLED CallInstance(r)
          /\ constructed[r] =>
                \A key \in Keys :
                   /\ ENABLED CallIsRegistered(r, key)
                   /\ \A creator \in creator_t(r) :
                         ENABLED CallRegister(r, key, creator)
                   /\ \A obj_t \in ConcreteTypes(r) :
                         ENABLED CallRegisterT(r, obj_t, key)

\* C5 witness: Register<obj_t> has just returned normally for a key that is
\* bound to the creator of another concrete type.
C5_Witness ==
    /\ last.op = "RegisterT"
    /\ ~last.threw
    /\ last.key \in DOMAIN _objects[last.reg]
    /\ _objects[last.reg][last.key] # last.creator

\* C6: the mapping getObjects returns has exactly the keys that were passed
\* to a registering call on that registry, each bound to its creator.
C6_GetObjectsExactlyRegistered ==
    last.op = "getObjects"
       => /\ ~last.threw
          /\ DOMAIN last.view = DOMAIN first[last.reg]
          /\ \A k \in DOMAIN last.view : last.view[k] = first[last.reg][k]

\* C6 witness: getObjects has just returned a mapping with three keys.
C6_Witness ==
    /\ last.op = "getObjects"
    /\ Cardinality(DOMAIN last.view) = 3
    /\ DOMAIN last.view = DOMAIN first[last.reg]

\* C7: registries do not share state.  A registering call on one registry
\* leaves every other registry as it was, so IsRegistered and Create on the
\* other registry give, for every key, the result they gave before.
C7_RegistriesIndependent ==
    [][ last'.op \in RegisterOps =>
           \A r \in Registries \ {last'.reg} :
              /\ _objects'[r] = _objects[r]
              /\ constructed'[r] = constructed[r]
              /\ \A x \in Keys :
                    LET a == Create(After, r, x)
                        b == Create(Before, r, x)
                    IN  /\ IsRegistered(After, r, x).retb
                              = IsRegistered(Before, r, x).retb
                        /\ a.threw = b.threw
                        /\ a.what = b.what
                        /\ ~b.threw => a.st.heap[a.ret] = b.st.heap[b.ret]
      ]_vars

\* C7 witness: a key has just been registered in one registry while the
\* other registry exists and does not hold that key.
C7_Witness ==
    /\ last.op \in RegisterOps
    /\ last.key \in DOMAIN _objects[last.reg]
    /\ \E r \in Registries \ {last.reg} :
          constructed[r] /\ last.key \notin DOMAIN _objects[r]
                         /\ DOMAIN _objects[r] # {}

\* C8: constructing a token for concrete type C with (registry, key) makes
\* exactly one Register call, for (key, creator of C), and leaves the program
\* in the state that Register<C>(key) and Register(key, creator of C) leave
\* it in; a key already present keeps its binding.
C8_TokenIsOneRegister ==
    [][ last'.op = "Token" =>
           LET C == last'.creator.T
               viaT == RegisterT(Before, last'.reg, C, last'.key)
               viaR == Register(Before, last'.reg, last'.key,
                                create_policy_new(last'.reg, C))
           IN  /\ ~last'.threw
               /\ last'.calls =
                     <<[key |-> last'.key,
                        creator |-> [parent |-> last'.reg, T |-> C]]>>
               /\ After = viaT.st
               /\ After = viaR.st
               /\ last'.key \in DOMAIN _objects[last'.reg] => _objects' = _objects
               /\ last'.key \notin DOMAIN _objects[last'.reg] =>
                     /\ DOMAIN _objects'[last'.reg]
                           = DOMAIN _objects[last'.reg] \cup {last'.key}
                     /\ _objects'[last'.reg][last'.key].T = C
               /\ heap' = heap
      ]_vars

\* C8 witness: a token has just been constructed for a key that is bound to
\* another concrete type, in a state reached through an earlier token.
C8_Witness ==
    /\ last.op = "Token"
    /\ last.key \in DOMAIN _objects[last.reg]
    /\ _objects[last.reg][last.key].T # last.creator.T
    /\ Cardinality(DOMAIN _objects[last.reg]) >= 2

\* C9: Instance returns the one registry of its type pair.  The first call
\* creates it empty; every later call returns it without re-creating or
\* resetting it, so every key registered so far is still bound as it was.
C9_InstanceIsSingleton ==
    [][ last'.op = "Instance" =>
           /\ ~last'.threw
           /\ last'.ref = last'.reg
           /\ constructed'[last'.reg]
           /\ ~constructed[last'.reg] => _objects'[last'.reg] = EmptyMap
           /\ constructed[last'.reg] => _objects'[last'.reg] = _objects[last'.reg]
           /\ \A k \in DOMAIN first[last'.reg] :
                 /\ k \in DOMAIN _objects'[last'.reg]
                 /\ _objects'[last'.reg][k] = first[last'.reg][k]
           /\ \A r \in Registries \ {last'.reg} :
                 constructed'[r] = constructed[r] /\ _objects'[r] = _objects[r]
      ]_vars

\* C9 witness: Instance has just been called on a registry that holds
\* registrations made through an earlier Instance call.
C9_Witness ==
    /\ last.op = "Instance"
    /\ DOMAIN _objects[last.reg] # {}
    /\ DOMAIN first[last.reg] # {}

\* C10: IsRegistered, Create (succeeding or failing) and getObjects leave
\* the mapping of every registry as it was; in particular nothing about the
\* object Create returned is kept in the registry.
C10_QueriesLeaveMappingUnchanged ==
    [][ last'.op \in {"IsRegistered", "Create", "getObjects"} =>
           /\ _objects' = _objects
           /\ constructed' = constructed
           /\ \A r \in Registries : \A k \in DOMAIN _objects'[r] :
                 _objects'[r][k] \in creator_t(r)
      ]_vars

\* C10 witness: Create has just returned an object from a registry that
\* holds two keys or more.
C10_Witness ==
    /\ last.op = "Create"
    /\ ~last.threw
    /\ Cardinality(DOMAIN _objects[last.reg]) >= 2

\* C11: the registry only grows.  In every step, whichever operation takes
\* it, each key bound in a registry before the step is bound after it, to
\* the same creator; so a key for which IsRegistered is true stays so.
C11_RegistryOnlyGrows ==
    [][ \A r \in Registries : \A k \in DOMAIN _objects[r] :
           /\ k \in DOMAIN _objects'[r]
           /\ _objects'[r][k] = _objects[r][k]
           /\ IsRegistered(Before, r, k).retb => IsRegistered(After, r, k).retb
      ]_vars

\* C11 witness: after an object was created, a token has just been
\* constructed for a key that is bound to another concrete type.
C11_Witness ==
    /\ last.op = "Token"
    /\ returned # {}
    /\ last.key \in DOMAIN _objects[last.reg]
    /\ _objects[last.reg][last.key] # last.creator

\* C12: IsRegistered(k) is true exactly when Create(k) would succeed, in
\* every registry and state; and a key for which IsRegistered is true before
\* a step is one for which Create does not fail after the step, so a probe
\* that returned true is good for every later Create.
C12_ProbeAgreesWithCreate ==
    [][ /\ \A r \in Registries : \A k \in Keys :
              /\ IsRegistered(After, r, k).retb = ~Create(After, r, k).threw
              /\ IsRegistered(Before, r, k).retb => ~Create(After, r, k).threw
        /\ last'.op = "IsRegistered" =>
              last'.retb = ~Create(After, last'.reg, last'.key).threw
        /\ (last'.op = "Create" /\ IsRegistered(Before, last'.reg, last'.key).retb)
              => ~last'.threw
      ]_vars

\* C12 witness: IsRegistered has just returned false for a key that lies
\* below a key the registry holds.
C12_Witness ==
    /\ last.op = "IsRegistered"
    /\ ~last.retb
    /\ \E k \in DOMAIN _objects[last.reg] : k > last.key

\* The state before any initializer has run.
Unstarted ==
    State([r \in Registries |-> FALSE], [r \in Registries |-> EmptyMap], <<>>)

\* The state after the tokens of order have been constructed, one after
\* another, from state st.
RECURSIVE RunTokens(_, _)
RunTokens(st, order) ==
    IF order = <<>> THEN st
    ELSE LET t == Head(order)
             inst == Instance(st, t.factory)
         IN  RunTokens(ObjectFactoryRegister(inst.st, t.object, t.factory,
                                             t.key).st,
                       Tail(order))

\* The orders in which the tokens of T can be constructed.
Orderings(T) ==
    {o \in [1..Cardinality(T) -> T] :
        \A i, j \in 1..Cardinality(T) : i # j => o[i] # o[j]}

\* No two tokens of T name the same key of the same registry.
DistinctKeys(T) ==
    \A a, b \in T : (a # b /\ a.factory = b.factory) => a.key # b.key

\* Two tokens of T name the same key of one registry with different types.
Conflict(T) ==
    \E a, b \in T : a.factory = b.factory /\ a.key = b.key /\ a.object # b.object

\* The first token in ran that names key k of registry r.
FirstToken(r, k) ==
    ran[CHOOSE i \in 1..Len(ran) :
           /\ ran[i].factory = r /\ ran[i].key = k
           /\ \A j \in 1..(i - 1) : ~(ran[j].factory = r /\ ran[j].key = k)]

\* C13: startup order matters for duplicate keys only.  Once every token
\* has been constructed, each registry holds exactly the keys of its tokens
\* and each key is bound to the type of the token that ran first for it; if
\* the keys are pairwise distinct, every order of the tokens gives this same
\* mapping; if two tokens give one key different types, some other order
\* gives a different mapping.
C13_OrderMattersOnlyForDuplicates ==
    Ran = tokens =>
       /\ \A r \in Registries :
             /\ DOMAIN _objects[r] = {t.key : t \in {u \in tokens : u.factory = r}}
             /\ \A k \in DOMAIN _objects[r] :
                   _objects[r][k] = [parent |-> r, T |-> FirstToken(r, k).object]
       /\ DistinctKeys(tokens) =>
             \A o \in Orderings(tokens) : RunTokens(Unstarted, o).objects = _objects
       /\ Conflict(tokens) =>
             \E o \in Orderings(tokens) : RunTokens(Unstarted, o).objects # _objects

\* C13 witness: three tokens have all been constructed, two of them for one
\* key with different types, and constructing them in the reverse order
\* would have bound that key to the other type.
C13_Witness ==
    /\ Ran = tokens
    /\ Cardinality(tokens) = 3
    /\ Conflict(tokens)
    /\ \E i \in 1..3 :
          RunTokens(Unstarted, <<ran[3], ran[2], ran[1]>>)
             .objects[ran[i].factory][ran[i].key]
          # _objects[ran[i].factory][ran[i].key]

\* C14: a token that registers through Instance() finds a constructed
\* registry, and nothing registered during static initialization is lost.
\* In every order of token constructions and uses: a registry that is not
\* constructed has received no registration; the registry of every token
\* that ran is constructed and holds that token's key, bound to the type of
\* the first token that ran for the key; and a use of Instance() after a
\* token ran leaves the registry as the tokens left it.
C14_TokensFindConstructedRegistry ==
    /\ \A r \in Registries :
          ~constructed[r] =>
             /\ _objects[r] = EmptyMap
             /\ \A i \in 1..Len(ran) : ran[i].factory # r
    /\ \A i \in 1..Len(ran) :
          LET t == ran[i] IN
          /\ constructed[t.factory]
          /\ t.key \in DOMAIN _objects[t.factory]
          /\ _objects[t.factory][t.key]
                = [parent |-> t.factory, T |-> FirstToken(t.factory, t.key).object]
    /\ last.op = "Instance" =>
          DOMAIN _objects[last.reg] = {t.key : t \in {u \in Ran : u.factory = last.reg}}

\* C14 witness: two tokens of one registry have been constructed, for
\* different keys, and Instance() has just been called again on that
\* registry.
C14_Witness ==
    /\ last.op = "Instance"
    /\ Len(ran) >= 2
    /\ ran[1].factory = last.reg
    /\ ran[2].factory = last.reg
    /\ ran[1].key # ran[2].key
    /\ Cardinality(DOMAIN _objects[last.reg]) >= 2

\* The result a call gives when it runs alone in the state before the step.
SequentialCreate(r, key) == Create(Before, r, key)

\* C15: concurrent readers agree with sequential execution unless a
\* Register overlaps them.  A Create that no Register call was in flight
\* with, from its find to its return, ends as Create run alone would: the
\* same error, or an object of the same type; an IsRegistered that runs
\* while no Register is in flight returns what IsRegistered run alone would;
\* no step of a reader changes the mapping; and a reader fails only while a
\* Register is in flight on its registry.  Nothing keeps a Register from
\* starting while readers are inside a call, nor a reader from reading
\* while a Register is in flight.
C15_ReadersAgreeUnlessRegisterInFlight ==
    /\ [][ /\ \A t \in Readers :
                 (rd[t].pc = "finish" /\ rd'[t].pc = "idle" /\ ~rd[t].raced) =>
                    LET seq == SequentialCreate(rd[t].reg, rd[t].key) IN
                    /\ last'.op = "Create"
                    /\ last'.threw = seq.threw
                    /\ last'.what = seq.what
                    /\ ~seq.threw =>
                          /\ last'.ret \in DOMAIN heap' \ DOMAIN heap
                          /\ heap'[last'.ret] = seq.st.heap[seq.ret]
           /\ (last'.op = "IsRegistered" /\ last' # last /\ inflight = <<>>) =>
                 last'.retb = IsRegistered(Before, last'.reg, last'.key).retb
           /\ inflight' = inflight => _objects' = _objects
           /\ (last'.op = "crash" /\ last.op # "crash") =>
                 inflight # <<>> /\ inflight[1].reg = last'.reg
         ]_vars
    /\ [](~Crashed =>
            /\ inflight = <<>> =>
                  \A r \in ThreadRegistries : \A key \in Keys :
                     \A creator \in creator_t(r) :
                        ENABLED RegisterBegin(r, key, creator)
            /\ \A t \in Readers : rd[t].pc = "idle" =>
                  \A r \in ThreadRegistries : \A key \in Keys :
                     /\ ENABLED ReaderIsRegistered(t, r, key)
                     /\ ENABLED ReaderCreateLookup(t, r, key))

\* C15 witness: no Register is in flight and none has overlapped the
\* readers, which are all inside Create at once, one of them for a key it
\* found and another for a key it did not find, after an earlier Create
\* returned an object.
C15_Witness ==
    /\ inflight = <<>>
    /\ \A t \in Readers : rd[t].pc = "finish" /\ ~rd[t].raced
    /\ \E t, u \in Readers : rd[t].found /\ ~rd[u].found
    /\ last.op = "Create"
    /\ ~last.threw

====
